---- MODULE Spec2Model ----
(***************************************************************************)
(* quick-protobuf, src/writer.rs: the protobuf Writer.                     *)
(*                                                                         *)
(* Machine integers are bit vectors: a value of width w is a sequence of   *)
(* w bits, bit i of the integer at index i+1, so that shifts, casts and    *)
(* sign extension keep the width the Rust code gives them.  Bytes in the   *)
(* sink are naturals 0..255.                                               *)
(***************************************************************************)
EXTENDS Integers, Sequences, FiniteSets, TLC

VARIABLES inner, call, atag, aval, asize, pre, ok

vars == <<inner, call, atag, aval, asize, pre, ok>>

(* ------------------------------ bounds --------------------------------- *)

\* longest byte slice, string, list or message body offered to a call
MaxLen == 3
\* a Writer is made over a sink that holds at most this many bytes
MaxPrior == 1
\* the sink may fail after accepting 0..MaxFault bytes of a call
MaxFault == 10

(* --------------------------- machine integers -------------------------- *)

\* the w-bit constant n (0 <= n < 2^31)
BV(n, w) == [i \in 1..w |-> IF i <= 31 THEN (n \div (2^(i-1))) % 2 ELSE 0]

Bit(v, i) == v[i+1]

\* !v
Not(v) == [i \in 1..Len(v) |-> 1 - v[i]]

\* a & b, a | b, a ^ b
And(a, b) == [i \in 1..Len(a) |-> a[i] * b[i]]
Or(a, b) == [i \in 1..Len(a) |-> IF a[i] + b[i] > 0 THEN 1 ELSE 0]
Xor(a, b) == [i \in 1..Len(a) |-> (a[i] + b[i]) % 2]

\* v << n : the bits shifted out at the top are lost
Shl(v, n) == [i \in 1..Len(v) |-> IF i - n >= 1 THEN v[i-n] ELSE 0]

\* v >> n on an unsigned integer: zeros come in at the top
Shr(v, n) == [i \in 1..Len(v) |-> IF i + n <= Len(v) THEN v[i+n] ELSE 0]

\* v >> n on a signed integer: the sign bit comes in at the top
Sar(v, n) == [i \in 1..Len(v) |-> IF i + n <= Len(v) THEN v[i+n] ELSE v[Len(v)]]

\* `as` to a narrower integer: the low w bits
Trunc(v, w) == [i \in 1..w |-> v[i]]

\* `as` from an unsigned integer to a wider one
ZeroExt(v, w) == [i \in 1..w |-> IF i <= Len(v) THEN v[i] ELSE 0]

\* `as` from a signed integer to a wider one
SignExt(v, w) == [i \in 1..w |-> IF i <= Len(v) THEN v[i] ELSE v[Len(v)]]

\* a > b, unsigned
UGt(a, b) == \E i \in 1..Len(a) : /\ a[i] > b[i]
                                  /\ \A j \in (i+1)..Len(a) : a[j] = b[j]

\* the byte (0..255) held by an 8-bit value
U8(b) == b[1] + 2*b[2] + 4*b[3] + 8*b[4] + 16*b[5] + 32*b[6] + 64*b[7] + 128*b[8]

\* usize -> u64
USize(n) == BV(n, 64)

(* ------------------------------ the sink -------------------------------- *)

\* The Writer's state while a call runs: the bytes `inner` holds, how many
\* more bytes `inner` accepts before its next failure (-1: it does not
\* fail), whether a failure is permanent, and the call's Result so far.
\* a fault is <<at, sticky>>
NoFault == <<-1, FALSE>>

Faults == {NoFault} \cup ((0..MaxFault) \X BOOLEAN)

Sink(buf, f) == [buf |-> buf, left |-> f[1], sticky |-> f[2], ok |-> TRUE]

Take(s, n) == SubSeq(s, 1, n)

\* std::io::Write::write_all on `inner`: all of bs is appended, or the sink
\* fails having accepted the bytes before the failure.
write_all(w, bs) ==
    IF w.left = -1 \/ Len(bs) <= w.left
    THEN [w EXCEPT !.buf = w.buf \o bs,
                   !.left = IF w.left = -1 THEN -1 ELSE w.left - Len(bs)]
    ELSE [w EXCEPT !.buf = w.buf \o Take(bs, w.left),
                   !.left = IF w.sticky THEN 0 ELSE -1,
                   !.ok = FALSE]

\* byteorder::WriteBytesExt::write_u8
write_u8(w, b) == write_all(w, <<U8(b)>>)

\* byteorder LittleEndian: the n bytes of v, least-significant first
LE(v, n) == [k \in 1..n |-> U8([i \in 1..8 |-> v[8*(k-1) + i]])]

(* ------------------------------ scalars --------------------------------- *)

\* write_varint with `v >>= 8` for `v >>= 7`
RECURSIVE write_varint_shift8(_, _)
write_varint_shift8(w, v) ==
    IF UGt(v, BV(127, 64))
    THEN LET r == write_u8(w, Or(And(Trunc(v, 8), BV(127, 8)), BV(128, 8)))
         IN  IF r.ok THEN write_varint_shift8(r, Shr(v, 8)) ELSE r
    ELSE write_u8(w, Trunc(v, 8))

RECURSIVE write_varint(_, _)
write_varint(w, v) ==
    IF UGt(v, BV(127, 64))
    THEN LET r == write_u8(w, Or(And(Trunc(v, 8), BV(127, 8)), BV(128, 8)))
         IN  IF r.ok THEN write_varint(r, Shr(v, 7)) ELSE r
    ELSE write_u8(w, Trunc(v, 8))

write_tag(w, tag) == write_varint(w, ZeroExt(tag, 64))

write_int32(w, v) == write_varint(w, SignExt(v, 64))

write_int64(w, v) == write_varint(w, v)

write_uint32(w, v) == write_varint(w, ZeroExt(v, 64))

write_uint64(w, v) == write_varint(w, v)

\* (v << 1) ^ (v >> 31) is an i32; `as u64` sign-extends it
write_sint32(w, v) == write_varint(w, SignExt(Xor(Shl(v, 1), Sar(v, 31)), 64))

\* write_sint64 with a logical shift for the arithmetic `v >> 63`
write_sint64_lsr(w, v) == write_varint(w, Xor(Shl(v, 1), Shr(v, 63)))

write_sint64(w, v) == write_varint(w, Xor(Shl(v, 1), Sar(v, 63)))

write_fixed64(w, v) == write_all(w, LE(v, 8))

write_fixed32(w, v) == write_all(w, LE(v, 4))

write_sfixed64(w, v) == write_all(w, LE(v, 8))

\* write_sfixed32 with the bytes most-significant first
write_sfixed32_be(w, v) == write_all(w, [k \in 1..4 |-> LE(v, 4)[5 - k]])

write_sfixed32(w, v) == write_all(w, LE(v, 4))

\* an f32 / f64 is its IEEE-754 bit pattern
write_float(w, v) == write_all(w, LE(v, 4))

write_double(w, v) == write_all(w, LE(v, 8))

write_bool(w, v) == write_varint(w, IF v THEN BV(1, 64) ELSE BV(0, 64))

write_enum(w, v) == write_int32(w, v)

(* -------------------------- length-delimited ---------------------------- *)

write_bytes(w, bytes) ==
    LET r == write_varint(w, USize(Len(bytes)))
    IN  IF r.ok THEN write_all(r, bytes) ELSE r

\* a &str is held as its UTF-8 bytes; as_bytes() is a view of them
as_bytes(s) == s

write_string(w, s) == write_bytes(w, as_bytes(s))

\* The closures handed to the packed writers.  An element m of the list is
\* <<x, sz>>: an i32 and what the caller's `size` closure returns for it;
\* the caller's `write` closure is |w, m| w.write_int32(*m).
write(w, m) == write_int32(w, m[1])

size(m) == m[2]

RECURSIVE SumSize(_)
SumSize(v) == IF v = <<>> THEN 0 ELSE size(Head(v)) + SumSize(Tail(v))

\* the loop without the `?`: a failed element does not end it
RECURSIVE WriteEach_no_try(_, _)
WriteEach_no_try(w, v) ==
    IF v = <<>> THEN w
    ELSE WriteEach_no_try(write(w, Head(v)), Tail(v))

\* for m in v { write(self, m)?; }
RECURSIVE WriteEach(_, _)
WriteEach(w, v) ==
    IF v = <<>> THEN w
    ELSE LET r == write(w, Head(v))
         IN  IF r.ok THEN WriteEach(r, Tail(v)) ELSE r

\* write_packed_repeated_field with v.len() for the sum of the sizes
write_packed_repeated_field_count(w, v) ==
    IF v = <<>> THEN w
    ELSE LET r == write_varint(w, USize(Len(v)))
         IN  IF r.ok THEN WriteEach(r, v) ELSE r

write_packed_repeated_field(w, v) ==
    IF v = <<>> THEN w
    ELSE LET r == write_varint(w, USize(SumSize(v)))
         IN  IF r.ok THEN WriteEach(r, v) ELSE r

\* slice::from_raw_parts(v as *const u8, len): the len bytes of memory that
\* start at the list.  v is <<mem, n, junk>>: the bytes of the elements as
\* the target lays them out, v.len(), and the byte found past the end of
\* the list; a read past the end of the list yields junk.
from_raw_parts(v, len) ==
    [k \in 1..len |-> IF k <= Len(v[1]) THEN v[1][k] ELSE v[3]]

write_packed_fixed_size(w, v, item_size) ==
    LET len == v[2] * item_size
        bytes == from_raw_parts(v, len)
    IN  write_bytes(w, bytes)

(* ----------------------------- tag then value --------------------------- *)

\* write_int32_with_tag with `v as u32 as u64` for `v as u64`
write_int32_with_tag_zext(w, tag, v) ==
    LET r == write_tag(w, tag)
    IN  IF r.ok THEN write_varint(r, ZeroExt(v, 64)) ELSE r

write_int32_with_tag(w, tag, v) ==
    LET r == write_tag(w, tag)
    IN  IF r.ok THEN write_varint(r, SignExt(v, 64)) ELSE r

write_int64_with_tag(w, tag, v) ==
    LET r == write_tag(w, tag)
    IN  IF r.ok THEN write_varint(r, v) ELSE r

write_uint32_with_tag(w, tag, v) ==
    LET r == write_tag(w, tag)
    IN  IF r.ok THEN write_varint(r, ZeroExt(v, 64)) ELSE r

write_uint64_with_tag(w, tag, v) ==
    LET r == write_tag(w, tag)
    IN  IF r.ok THEN write_varint(r, v) ELSE r

write_sint32_with_tag(w, tag, v) ==
    LET r == write_tag(w, tag)
    IN  IF r.ok THEN write_sint32(r, v) ELSE r

write_sint64_with_tag(w, tag, v) ==
    LET r == write_tag(w, tag)
    IN  IF r.ok THEN write_sint64(r, v) ELSE r

write_fixed64_with_tag(w, tag, v) ==
    LET r == write_tag(w, tag)
    IN  IF r.ok THEN write_all(r, LE(v, 8)) ELSE r

write_fixed32_with_tag(w, tag, v) ==
    LET r == write_tag(w, tag)
    IN  IF r.ok THEN write_all(r, LE(v, 4)) ELSE r

write_sfixed64_with_tag(w, tag, v) ==
    LET r == write_tag(w, tag)
    IN  IF r.ok THEN write_all(r, LE(v, 8)) ELSE r

write_sfixed32_with_tag(w, tag, v) ==
    LET r == write_tag(w, tag)
    IN  IF r.ok THEN write_all(r, LE(v, 4)) ELSE r

write_float_with_tag(w, tag, v) ==
    LET r == write_tag(w, tag)
    IN  IF r.ok THEN write_all(r, LE(v, 4)) ELSE r

write_double_with_tag(w, tag, v) ==
    LET r == write_tag(w, tag)
    IN  IF r.ok THEN write_all(r, LE(v, 8)) ELSE r

write_bool_with_tag(w, tag, v) ==
    LET r == write_tag(w, tag)
    IN  IF r.ok THEN write_varint(r, IF v THEN BV(1, 64) ELSE BV(0, 64)) ELSE r

write_bytes_with_tag(w, tag, bytes) ==
    LET r == write_tag(w, tag)
        l == IF r.ok THEN write_varint(r, USize(Len(bytes))) ELSE r
    IN  IF l.ok THEN write_all(l, bytes) ELSE l

write_string_with_tag(w, tag, s) ==
    LET r == write_tag(w, tag)
    IN  IF r.ok THEN write_bytes(r, as_bytes(s)) ELSE r

\* A MessageWrite implementation, for a record of int32 fields: m is
\* <<size, fields>>, what get_size() returns and the fields <<tag, x>>, and
\* its write_message is w.write_int32_with_tag(tag, x)? for each field.
get_size(m) == m[1]

RECURSIVE MessageWrite_write_message(_, _)
MessageWrite_write_message(w, fs) ==
    IF fs = <<>> THEN w
    ELSE LET r == write_int32_with_tag(w, Head(fs)[1], Head(fs)[2])
         IN  IF r.ok THEN MessageWrite_write_message(r, Tail(fs)) ELSE r

write_message(w, m) ==
    LET len == get_size(m)
        r == write_varint(w, USize(len))
    IN  IF r.ok THEN MessageWrite_write_message(r, m[2]) ELSE r

\* write_packed_repeated_field_with_tag with the tag and the length written
\* again before every element
RECURSIVE TagEach(_, _, _)
TagEach(w, tag, v) ==
    IF v = <<>> THEN w
    ELSE LET r == write_tag(w, tag)
             l == IF r.ok THEN write_varint(r, USize(size(Head(v)))) ELSE r
             e == IF l.ok THEN write(l, Head(v)) ELSE l
         IN  IF e.ok THEN TagEach(e, tag, Tail(v)) ELSE e

write_packed_repeated_field_with_tag_each(w, tag, v) == TagEach(w, tag, v)

write_packed_repeated_field_with_tag(w, tag, v) ==
    IF v = <<>> THEN w
    ELSE LET r == write_tag(w, tag)
             l == IF r.ok THEN write_varint(r, USize(SumSize(v))) ELSE r
         IN  IF l.ok THEN WriteEach(l, v) ELSE l

write_packed_fixed_size_with_tag(w, tag, v, item_size) ==
    IF v[2] = 0 THEN w
    ELSE LET r == write_tag(w, tag)
             len == v[2] * item_size
             bytes == from_raw_parts(v, len)
         IN  IF r.ok THEN write_bytes(r, bytes) ELSE r

write_message_with_tag(w, tag, m) ==
    LET r == write_tag(w, tag)
    IN  IF r.ok THEN write_message(r, m) ELSE r

\* write_enum_with_tag with the value before the tag
write_enum_with_tag_value_first(w, tag, v) ==
    LET r == write_int32(w, v)
    IN  IF r.ok THEN write_tag(r, tag) ELSE r

write_enum_with_tag(w, tag, v) ==
    LET r == write_tag(w, tag)
    IN  IF r.ok THEN write_int32(r, v) ELSE r

(* ------------------------------- inputs --------------------------------- *)

\* 2^k and 2^k - 1 at width w
P2(k, w) == Shl(BV(1, w), k)
Ones(k, w) == Not(Shl(Not(BV(0, w)), k))

\* the i32 n (-2^31 < n < 2^31)
I32(n) == IF n >= 0 THEN BV(n, 32) ELSE Not(BV(-(n + 1), 32))

U64Vals == {BV(n, 64) : n \in {0, 1, 127, 128, 300, 16383, 16384}}
           \cup {P2(32, 64), P2(35, 64), Ones(63, 64), P2(63, 64), Not(BV(0, 64))}

I32Vals == {I32(n) : n \in {0, 1, -1, 127, 128, 300, 1073741823, 1073741824,
                            -1073741824, -1073741825, 2147483647}}
           \cup {P2(31, 32)}

I64Vals == {SignExt(I32(n), 64) : n \in {0, 1, -1, 300, -2147483647}}
           \cup {P2(62, 64), Not(P2(62, 64)), Ones(63, 64), P2(63, 64)}

U32Vals == {BV(n, 32) : n \in {0, 1, 127, 128, 300, 305419896}}
           \cup {P2(31, 32), Not(BV(0, 32))}

\* 0.0, 1.0, NaN, -0.0
F32Vals == {BV(0, 32), BV(1065353216, 32), BV(2143289344, 32), P2(31, 32)}

\* 0.0, 1.0, -0.0
F64Vals == {BV(0, 64), Shl(BV(1023, 64), 52), P2(63, 64)}

\* (field_number << 3) | wire_type
Tag(field_number, wire_type) == Or(Shl(BV(field_number, 32), 3), BV(wire_type, 32))

FieldNumbers == {1, 2, 16, 536870911}

Tags(wire_type) == {Tag(f, wire_type) : f \in FieldNumbers}

PackedTags == {Tag(2, 2), Tag(16, 2)}

MessageTags == {Tag(1, 2), Tag(16, 2)}

SeqsUpTo(S, n) == UNION {[1..k -> S] : k \in 0..n}

\* the elements of s at the indices in I, in the order of s
RECURSIVE Pick(_, _, _)
Pick(s, I, i) ==
    IF i > Len(s) THEN <<>>
    ELSE (IF i \in I THEN <<s[i]>> ELSE <<>>) \o Pick(s, I, i + 1)

\* the subsequences of s of at most n elements
SubSeqsUpTo(s, n) ==
    {Pick(s, I, 1) : I \in {J \in SUBSET (1..Len(s)) : Cardinality(J) <= n}}

\* byte slices: the short ones, and one whose length needs a 2-byte varint
LongLen == 128

ByteSlices == SeqsUpTo({97, 255}, MaxLen) \cup {[k \in 1..LongLen |-> 97]}

\* strings, as UTF-8: "", "a", "aa", ..., and "e-acute"
Strs == SeqsUpTo({97}, MaxLen) \cup {<<195, 169>>}

\* list elements with the size the caller's closure reports for each; the
\* last one reports 1 for an element that takes 2 bytes
Items == <<<<I32(1), 1>>, <<I32(2), 1>>, <<I32(3), 1>>, <<I32(300), 2>>, <<I32(300), 1>>,
          <<I32(-1), 10>>>>

Lists == SubSeqsUpTo(Items, MaxLen)

\* lists of n u32 elements 0x12345678 as they lie in memory on a little- or
\* big-endian target, followed in memory by junk
ElemLE == <<120, 86, 52, 18>>
ElemBE == <<18, 52, 86, 120>>

RECURSIVE Repeat(_, _)
Repeat(e, n) == IF n = 0 THEN <<>> ELSE e \o Repeat(e, n - 1)

FixedLists == {<<Repeat(e, n), n, j>> :
                  e \in {ElemLE, ElemBE}, n \in 0..MaxLen, j \in {0, 255}}

ItemSizes == {2, 4, 5}

\* messages: the fields, and a get_size() that is exact or one too many
Fields == <<<<Tag(1, 0), I32(1)>>, <<Tag(2, 0), I32(300)>>, <<Tag(16, 0), I32(-1)>>,
           <<Tag(3, 0), I32(0)>>>>

BodyLen(fs) == Len(MessageWrite_write_message(Sink(<<>>, NoFault), fs).buf)

Msgs == UNION {{<<BodyLen(fs), fs>>, <<BodyLen(fs) + 1, fs>>} :
                  fs \in SubSeqsUpTo(Fields, MaxLen)}

(* --------------------------- the state machine -------------------------- *)

\* struct Writer { inner: W } holds nothing but the sink, so what a call does
\* is decided by the bytes the sink already holds, the arguments, and how
\* the sink behaves during the call.
\*
\* inner: the bytes the sink of the Writer holds.
\* call:  the last step: "new" when the Writer was just made over a sink,
\*        or the name of the call made on it.
\* atag, aval, asize: the arguments of that call (tag, value, item_size).
\* pre:   the bytes the sink held before that call.
\* ok:    whether that call returned Ok.

\* what the caller's sink may hold when the Writer is made over it
InitialSinks == SeqsUpTo({8}, MaxPrior)

None == <<>>

Init ==
    /\ inner \in InitialSinks
    /\ call = "new"
    /\ atag = None /\ aval = None /\ asize = 0
    /\ pre = <<>>
    /\ ok = TRUE

\* Writer::new(w)
new ==
    /\ inner' \in InitialSinks
    /\ call' = "new"
    /\ atag' = None /\ aval' = None /\ asize' = 0
    /\ pre' = <<>>
    /\ ok' = TRUE

\* a call named op with arguments t, v, k has run on the Writer and left it as r
Called(op, t, v, k, r) ==
    /\ inner' = r.buf
    /\ ok' = r.ok
    /\ call' = op
    /\ atag' = t /\ aval' = v /\ asize' = k
    /\ pre' = inner

\* Each action is one call on a Writer just made, over a sink that fails as
\* f says.  A call reads nothing of the Writer but appends to its sink, so
\* the calls made before it count only through the bytes they left there:
\* the InitialSinks.
Call_write_varint ==
    /\ call = "new"
    /\ \E v \in U64Vals, f \in Faults :
           Called("write_varint", None, v, 0,
                  write_varint(Sink(inner, f), v))

Call_write_tag ==
    /\ call = "new"
    /\ \E t \in Tags(0) \cup Tags(2), f \in Faults :
           Called("write_tag", t, None, 0,
                  write_tag(Sink(inner, f), t))

Call_write_int32 ==
    /\ call = "new"
    /\ \E v \in I32Vals, f \in Faults :
           Called("write_int32", None, v, 0,
                  write_int32(Sink(inner, f), v))

Call_write_int64 ==
    /\ call = "new"
    /\ \E v \in I64Vals, f \in Faults :
           Called("write_int64", None, v, 0,
                  write_int64(Sink(inner, f), v))

Call_write_uint32 ==
    /\ call = "new"
    /\ \E v \in U32Vals, f \in Faults :
           Called("write_uint32", None, v, 0,
                  write_uint32(Sink(inner, f), v))

Call_write_uint64 ==
    /\ call = "new"
    /\ \E v \in U64Vals, f \in Faults :
           Called("write_uint64", None, v, 0,
                  write_uint64(Sink(inner, f), v))

Call_write_sint32 ==
    /\ call = "new"
    /\ \E v \in I32Vals, f \in Faults :
           Called("write_sint32", None, v, 0,
                  write_sint32(Sink(inner, f), v))

Call_write_sint64 ==
    /\ call = "new"
    /\ \E v \in I64Vals, f \in Faults :
           Called("write_sint64", None, v, 0,
                  write_sint64(Sink(inner, f), v))

Call_write_fixed64 ==
    /\ call = "new"
    /\ \E v \in U64Vals, f \in Faults :
           Called("write_fixed64", None, v, 0,
                  write_fixed64(Sink(inner, f), v))

Call_write_fixed32 ==
    /\ call = "new"
    /\ \E v \in U32Vals, f \in Faults :
           Called("write_fixed32", None, v, 0,
                  write_fixed32(Sink(inner, f), v))

Call_write_sfixed64 ==
    /\ call = "new"
    /\ \E v \in I64Vals, f \in Faults :
           Called("write_sfixed64", None, v, 0,
                  write_sfixed64(Sink(inner, f), v))

Call_write_sfixed32 ==
    /\ call = "new"
    /\ \E v \in I32Vals, f \in Faults :
           Called("write_sfixed32", None, v, 0,
                  write_sfixed32(Sink(inner, f), v))

Call_write_float ==
    /\ call = "new"
    /\ \E v \in F32Vals, f \in Faults :
           Called("write_float", None, v, 0,
                  write_float(Sink(inner, f), v))

Call_write_double ==
    /\ call = "new"
    /\ \E v \in F64Vals, f \in Faults :
           Called("write_double", None, v, 0,
                  write_double(Sink(inner, f), v))

Call_write_bool ==
    /\ call = "new"
    /\ \E v \in BOOLEAN, f \in Faults :
           Called("write_bool", None, v, 0,
                  write_bool(Sink(inner, f), v))

Call_write_enum ==
    /\ call = "new"
    /\ \E v \in I32Vals, f \in Faults :
           Called("write_enum", None, v, 0,
                  write_enum(Sink(inner, f), v))

Call_write_bytes ==
    /\ call = "new"
    /\ \E v \in ByteSlices, f \in Faults :
           Called("write_bytes", None, v, 0,
                  write_bytes(Sink(inner, f), v))

Call_write_string ==
    /\ call = "new"
    /\ \E v \in Strs, f \in Faults :
           Called("write_string", None, v, 0,
                  write_string(Sink(inner, f), v))

Call_write_packed_repeated_field ==
    /\ call = "new"
    /\ \E v \in Lists, f \in Faults :
           Called("write_packed_repeated_field", None, v, 0,
                  write_packed_repeated_field(Sink(inner, f), v))

Call_write_packed_fixed_size ==
    /\ call = "new"
    /\ \E v \in FixedLists, k \in ItemSizes, f \in Faults :
           Called("write_packed_fixed_size", None, v, k,
                  write_packed_fixed_size(Sink(inner, f), v, k))

Call_write_message ==
    /\ call = "new"
    /\ \E v \in Msgs, f \in Faults :
           Called("write_message", None, v, 0,
                  write_message(Sink(inner, f), v))

Call_write_int32_with_tag ==
    /\ call = "new"
    /\ \E t \in Tags(0), v \in I32Vals, f \in Faults :
           Called("write_int32_with_tag", t, v, 0,
                  write_int32_with_tag(Sink(inner, f), t, v))

Call_write_int64_with_tag ==
    /\ call = "new"
    /\ \E t \in Tags(0), v \in I64Vals, f \in Faults :
           Called("write_int64_with_tag", t, v, 0,
                  write_int64_with_tag(Sink(inner, f), t, v))

Call_write_uint32_with_tag ==
    /\ call = "new"
    /\ \E t \in Tags(0), v \in U32Vals, f \in Faults :
           Called("write_uint32_with_tag", t, v, 0,
                  write_uint32_with_tag(Sink(inner, f), t, v))

Call_write_uint64_with_tag ==
    /\ call = "new"
    /\ \E t \in Tags(0), v \in U64Vals, f \in Faults :
           Called("write_uint64_with_tag", t, v, 0,
                  write_uint64_with_tag(Sink(inner, f), t, v))

Call_write_sint32_with_tag ==
    /\ call = "new"
    /\ \E t \in Tags(0), v \in I32Vals, f \in Faults :
           Called("write_sint32_with_tag", t, v, 0,
                  write_sint32_with_tag(Sink(inner, f), t, v))

Call_write_sint64_with_tag ==
    /\ call = "new"
    /\ \E t \in Tags(0), v \in I64Vals, f \in Faults :
           Called("write_sint64_with_tag", t, v, 0,
                  write_sint64_with_tag(Sink(inner, f), t, v))

Call_write_fixed64_with_tag ==
    /\ call = "new"
    /\ \E t \in Tags(1), v \in U64Vals, f \in Faults :
           Called("write_fixed64_with_tag", t, v, 0,
                  write_fixed64_with_tag(Sink(inner, f), t, v))

Call_write_fixed32_with_tag ==
    /\ call = "new"
    /\ \E t \in Tags(5), v \in U32Vals, f \in Faults :
           Called("write_fixed32_with_tag", t, v, 0,
                  write_fixed32_with_tag(Sink(inner, f), t, v))

Call_write_sfixed64_with_tag ==
    /\ call = "new"
    /\ \E t \in Tags(1), v \in I64Vals, f \in Faults :
           Called("write_sfixed64_with_tag", t, v, 0,
                  write_sfixed64_with_tag(Sink(inner, f), t, v))

Call_write_sfixed32_with_tag ==
    /\ call = "new"
    /\ \E t \in Tags(5), v \in I32Vals, f \in Faults :
           Called("write_sfixed32_with_tag", t, v, 0,
                  write_sfixed32_with_tag(Sink(inner, f), t, v))

Call_write_float_with_tag ==
    /\ call = "new"
    /\ \E t \in Tags(5), v \in F32Vals, f \in Faults :
           Called("write_float_with_tag", t, v, 0,
                  write_float_with_tag(Sink(inner, f), t, v))

Call_write_double_with_tag ==
    /\ call = "new"
    /\ \E t \in Tags(1), v \in F64Vals, f \in Faults :
           Called("write_double_with_tag", t, v, 0,
                  write_double_with_tag(Sink(inner, f), t, v))

Call_write_bool_with_tag ==
    /\ call = "new"
    /\ \E t \in Tags(0), v \in BOOLEAN, f \in Faults :
           Called("write_bool_with_tag", t, v, 0,
                  write_bool_with_tag(Sink(inner, f), t, v))

Call_write_enum_with_tag ==
    /\ call = "new"
    /\ \E t \in Tags(0), v \in I32Vals, f \in Faults :
           Called("write_enum_with_tag", t, v, 0,
                  write_enum_with_tag(Sink(inner, f), t, v))

Call_write_bytes_with_tag ==
    /\ call = "new"
    /\ \E t \in Tags(2), v \in ByteSlices, f \in Faults :
           Called("write_bytes_with_tag", t, v, 0,
                  write_bytes_with_tag(Sink(inner, f), t, v))

Call_write_string_with_tag ==
    /\ call = "new"
    /\ \E t \in Tags(2), v \in Strs, f \in Faults :
           Called("write_string_with_tag", t, v, 0,
                  write_string_with_tag(Sink(inner, f), t, v))

Call_write_packed_repeated_field_with_tag ==
    /\ call = "new"
    /\ \E t \in PackedTags, v \in Lists, f \in Faults :
           Called("write_packed_repeated_field_with_tag", t, v, 0,
                  write_packed_repeated_field_with_tag(Sink(inner, f), t, v))

Call_write_packed_fixed_size_with_tag ==
    /\ call = "new"
    /\ \E t \in PackedTags, v \in FixedLists, k \in ItemSizes, f \in Faults :
           Called("write_packed_fixed_size_with_tag", t, v, k,
                  write_packed_fixed_size_with_tag(Sink(inner, f), t, v, k))

Call_write_message_with_tag ==
    /\ call = "new"
    /\ \E t \in MessageTags, v \in Msgs, f \in Faults :
           Called("write_message_with_tag", t, v, 0,
                  write_message_with_tag(Sink(inner, f), t, v))

Next ==
    \/ new
    \/ Call_write_varint
    \/ Call_write_tag
    \/ Call_write_int32
    \/ Call_write_int64
    \/ Call_write_uint32
    \/ Call_write_uint64
    \/ Call_write_sint32
    \/ Call_write_sint64
    \/ Call_write_fixed64
    \/ Call_write_fixed32
    \/ Call_write_sfixed64
    \/ Call_write_sfixed32
    \/ Call_write_float
    \/ Call_write_double
    \/ Call_write_bool
    \/ Call_write_enum
    \/ Call_write_bytes
    \/ Call_write_string
    \/ Call_write_packed_repeated_field
    \/ Call_write_packed_fixed_size
    \/ Call_write_message
    \/ Call_write_int32_with_tag
    \/ Call_write_int64_with_tag
    \/ Call_write_uint32_with_tag
    \/ Call_write_uint64_with_tag
    \/ Call_write_sint32_with_tag
    \/ Call_write_sint64_with_tag
    \/ Call_write_fixed64_with_tag
    \/ Call_write_fixed32_with_tag
    \/ Call_write_sfixed64_with_tag
    \/ Call_write_sfixed32_with_tag
    \/ Call_write_float_with_tag
    \/ Call_write_double_with_tag
    \/ Call_write_bool_with_tag
    \/ Call_write_enum_with_tag
    \/ Call_write_bytes_with_tag
    \/ Call_write_string_with_tag
    \/ Call_write_packed_repeated_field_with_tag
    \/ Call_write_packed_fixed_size_with_tag
    \/ Call_write_message_with_tag

Spec == Init /\ [][Next]_vars

(* ------------------------- reading the bytes back ----------------------- *)

\* decode_varint: accumulate 7-bit groups until a byte without the
\* continuation bit; <<FALSE, .., ..>> when the bytes run out first or more
\* than 10 bytes are consumed.  The result is <<ok, value, bytes consumed>>.
RECURSIVE decode_varint_from(_, _, _)
decode_varint_from(bs, i, acc) ==
    IF i > Len(bs) \/ i > 10 THEN <<FALSE, acc, i - 1>>
    ELSE LET r == Or(acc, Shl(BV(bs[i] % 128, 64), 7 * (i - 1)))
         IN  IF bs[i] < 128 THEN <<TRUE, r, i>>
             ELSE decode_varint_from(bs, i + 1, r)

decode_varint(bs) == decode_varint_from(bs, 1, BV(0, 64))

\* zigzag decode, the inverse of (v << 1) ^ (v >> (bitwidth-1)):
\* (n >> 1) ^ -(n & 1)
decode_zigzag(n) ==
    Xor(Shr(n, 1), IF n[1] = 1 THEN Not(BV(0, Len(n))) ELSE BV(0, Len(n)))

\* little-endian read of n bytes
read_le(bs, n) ==
    IF Len(bs) < n THEN <<FALSE, BV(0, 8 * n), Len(bs)>>
    ELSE <<TRUE, [i \in 1..(8 * n) |-> (bs[((i - 1) \div 8) + 1] \div (2^((i - 1) % 8))) % 2], n>>

\* the scalar readers, each the mirror of its writer
Narrow(r, width) == <<r[1], Trunc(r[2], width), r[3]>>
UnZigZag(r) == <<r[1], decode_zigzag(r[2]), r[3]>>
NonZero(r) == <<r[1], r[2] # BV(0, 64), r[3]>>

Read(kind, bs) ==
    CASE kind \in {"write_int32", "write_uint32", "write_enum"} -> Narrow(decode_varint(bs), 32)
      [] kind \in {"write_int64", "write_uint64"} -> decode_varint(bs)
      [] kind = "write_sint32" -> UnZigZag(Narrow(decode_varint(bs), 32))
      [] kind = "write_sint64" -> UnZigZag(decode_varint(bs))
      [] kind = "write_bool" -> NonZero(decode_varint(bs))
      [] kind \in {"write_fixed32", "write_sfixed32"} -> read_le(bs, 4)
      [] kind \in {"write_fixed64", "write_sfixed64"} -> read_le(bs, 8)

(* ------------------------------ properties ------------------------------ *)

\* the call op on the Writer w with arguments t (tag), v (value), k (item_size)
Apply(op, t, v, k, w) ==
    CASE op = "write_varint" -> write_varint(w, v)
      [] op = "write_tag" -> write_tag(w, t)
      [] op = "write_int32" -> write_int32(w, v)
      [] op = "write_int64" -> write_int64(w, v)
      [] op = "write_uint32" -> write_uint32(w, v)
      [] op = "write_uint64" -> write_uint64(w, v)
      [] op = "write_sint32" -> write_sint32(w, v)
      [] op = "write_sint64" -> write_sint64(w, v)
      [] op = "write_fixed64" -> write_fixed64(w, v)
      [] op = "write_fixed32" -> write_fixed32(w, v)
      [] op = "write_sfixed64" -> write_sfixed64(w, v)
      [] op = "write_sfixed32" -> write_sfixed32(w, v)
      [] op = "write_float" -> write_float(w, v)
      [] op = "write_double" -> write_double(w, v)
      [] op = "write_bool" -> write_bool(w, v)
      [] op = "write_enum" -> write_enum(w, v)
      [] op = "write_bytes" -> write_bytes(w, v)
      [] op = "write_string" -> write_string(w, v)
      [] op = "write_packed_repeated_field" -> write_packed_repeated_field(w, v)
      [] op = "write_packed_fixed_size" -> write_packed_fixed_size(w, v, k)
      [] op = "write_message" -> write_message(w, v)
      [] op = "write_int32_with_tag" -> write_int32_with_tag(w, t, v)
      [] op = "write_int64_with_tag" -> write_int64_with_tag(w, t, v)
      [] op = "write_uint32_with_tag" -> write_uint32_with_tag(w, t, v)
      [] op = "write_uint64_with_tag" -> write_uint64_with_tag(w, t, v)
      [] op = "write_sint32_with_tag" -> write_sint32_with_tag(w, t, v)
      [] op = "write_sint64_with_tag" -> write_sint64_with_tag(w, t, v)
      [] op = "write_fixed64_with_tag" -> write_fixed64_with_tag(w, t, v)
      [] op = "write_fixed32_with_tag" -> write_fixed32_with_tag(w, t, v)
      [] op = "write_sfixed64_with_tag" -> write_sfixed64_with_tag(w, t, v)
      [] op = "write_sfixed32_with_tag" -> write_sfixed32_with_tag(w, t, v)
      [] op = "write_float_with_tag" -> write_float_with_tag(w, t, v)
      [] op = "write_double_with_tag" -> write_double_with_tag(w, t, v)
      [] op = "write_bool_with_tag" -> write_bool_with_tag(w, t, v)
      [] op = "write_enum_with_tag" -> write_enum_with_tag(w, t, v)
      [] op = "write_bytes_with_tag" -> write_bytes_with_tag(w, t, v)
      [] op = "write_string_with_tag" -> write_string_with_tag(w, t, v)
      [] op = "write_packed_repeated_field_with_tag" -> write_packed_repeated_field_with_tag(w, t, v)
      [] op = "write_packed_fixed_size_with_tag" -> write_packed_fixed_size_with_tag(w, t, v, k)
      [] op = "write_message_with_tag" -> write_message_with_tag(w, t, v)

\* the bytes the last call appended
App == SubSeq(inner, Len(pre) + 1, Len(inner))

\* the last call left the earlier bytes of the sink in place
Kept == Len(inner) >= Len(pre) /\ Take(inner, Len(pre)) = pre

\* The varint of the u64 x, written out from its definition: the number of
\* 7-bit groups up to the highest set bit (at least one), each group in the
\* low 7 bits of its byte, 0x80 on every byte but the last.
BitOr0(x, i) == IF i < Len(x) THEN Bit(x, i) ELSE 0

Group(x, g) == BitOr0(x, 7*g) + 2 * BitOr0(x, 7*g + 1) + 4 * BitOr0(x, 7*g + 2)
               + 8 * BitOr0(x, 7*g + 3) + 16 * BitOr0(x, 7*g + 4)
               + 32 * BitOr0(x, 7*g + 5) + 64 * BitOr0(x, 7*g + 6)

NGroups(x) == CHOOSE n \in 1..10 :
                 /\ \A i \in (7*n)..63 : Bit(x, i) = 0
                 /\ \A m \in 1..(n-1) : \E i \in (7*m)..63 : Bit(x, i) = 1

Varint(x) == [g \in 1..NGroups(x) |-> Group(x, g - 1) + IF g < NGroups(x) THEN 128 ELSE 0]

\* bit j of the byte b
ByteBit(b, j) == (b \div (2^j)) % 2

\* C1: write_varint(v) appends 1 to 10 bytes; every byte but the last has
\* 0x80 set and the last has it clear; the low 7 bits of byte i are bits
\* 7i..7i+6 of v; 0 gives [0x00], 127 gives [0x7F], 128 gives [0x80, 0x01]
\* and 2^64-1 gives 10 bytes.
C1_VarintBytes ==
    (call = "write_varint" /\ ok) =>
        /\ Kept
        /\ Len(App) \in 1..10
        /\ \A i \in 1..(Len(App) - 1) : App[i] >= 128
        /\ App[Len(App)] < 128
        /\ \A i \in 0..(Len(App) - 1) : \A j \in 0..6 :
               ByteBit(App[i + 1], j) = BitOr0(aval, 7*i + j)
        /\ (aval = BV(0, 64) => App = <<0>>)
        /\ (aval = BV(127, 64) => App = <<127>>)
        /\ (aval = BV(128, 64) => App = <<128, 1>>)
        /\ (aval = Not(BV(0, 64)) => Len(App) = 10)

C1_Witness ==
    /\ call = "write_varint" /\ ok
    /\ aval = Not(BV(0, 64))
    /\ pre # <<>>
    /\ Len(App) = 10

\* the unsigned zigzag value of the signed v: 2*v for v >= 0 and -2*v - 1,
\* which is 2*(!v) + 1, for v < 0
ZigZag(v) == IF v[Len(v)] = 0 THEN Shl(v, 1) ELSE Or(Shl(Not(v), 1), BV(1, Len(v)))

\* C2: write_sint32(v) appends the varint of the unsigned 32-bit zigzag value
\* of v (at most 5 bytes) and write_sint64(v) the varint of the unsigned
\* 64-bit zigzag value of v; -1 is written as the varint of 1, 1 as that of 2.
C2_ZigZagVarint ==
    (call \in {"write_sint32", "write_sint64"} /\ ok) =>
        /\ Kept
        /\ App = Varint(ZeroExt(ZigZag(aval), 64))
        /\ (call = "write_sint32" => Len(App) <= 5)

\* the four packed writers, and whether the list handed to the last call
\* was empty
PackedOps == {"write_packed_repeated_field", "write_packed_repeated_field_with_tag"}

PackedFixedOps == {"write_packed_fixed_size", "write_packed_fixed_size_with_tag"}

EmptyList == \/ call \in PackedOps /\ aval = <<>>
             \/ call \in PackedFixedOps /\ aval[2] = 0

\* C3: every packed writer called with an empty list returns Ok and appends
\* no byte: no tag, no length, no payload.
C3_EmptyPackedWritesNothing ==
    EmptyList => (ok /\ inner = pre)

(* the length-delimited writers *)

BytesOps == {"write_bytes", "write_string", "write_bytes_with_tag", "write_string_with_tag"}

MessageOps == {"write_message", "write_message_with_tag"}

LengthOps == BytesOps \cup MessageOps \cup PackedOps

\* the varint of the tag of the last call, if it took one
TagBytes == IF atag = None THEN <<>> ELSE Varint(ZeroExt(atag, 64))

\* what the last call appended after the tag
AfterTag == SubSeq(App, Len(TagBytes) + 1, Len(App))

\* the encodings of the elements of a list, one after the other
RECURSIVE ElementBytes(_)
ElementBytes(v) ==
    IF v = <<>> THEN <<>> ELSE Varint(SignExt(Head(v)[1], 64)) \o ElementBytes(Tail(v))

\* the bytes a message's write_message writes: tag and value of each field
RECURSIVE FieldBytes(_)
FieldBytes(fs) ==
    IF fs = <<>> THEN <<>>
    ELSE Varint(ZeroExt(Head(fs)[1], 64)) \o Varint(SignExt(Head(fs)[2], 64))
         \o FieldBytes(Tail(fs))

RECURSIVE SizeSum(_, _)
SizeSum(v, i) == IF i > Len(v) THEN 0 ELSE v[i][2] + SizeSum(v, i + 1)

\* the payload of the last call, and the length the call is given for it:
\* len(bytes), get_size(), or the sum of size(x) over the elements
Payload == CASE call \in BytesOps -> aval
             [] call \in MessageOps -> FieldBytes(aval[2])
             [] call \in PackedOps -> ElementBytes(aval)

Declared == CASE call \in BytesOps -> Len(aval)
              [] call \in MessageOps -> aval[1]
              [] call \in PackedOps -> SizeSum(aval, 1)

\* what follows the tag is a varint and then exactly as many bytes as the
\* varint says
Framed(bs) == \E n \in 0..Len(bs) :
                 /\ Len(bs) = Len(Varint(USize(n))) + n
                 /\ Take(bs, Len(Varint(USize(n)))) = Varint(USize(n))

LengthCall == call \in LengthOps /\ ok /\ ~EmptyList

\* C4, as claimed: after every successful length-delimited call the varint
\* length prefix comes before the payload and its value is the number of
\* payload bytes the call appended after it: get_size() for write_message,
\* the sum of size(x) for write_packed_repeated_field.
C4_PrefixIsPayloadLength ==
    LengthCall =>
        /\ Kept
        /\ Take(App, Len(TagBytes)) = TagBytes
        /\ Framed(AfterTag)
        /\ Take(AfterTag, Len(Varint(USize(Declared)))) = Varint(USize(Declared))

\* C4, amended: after every successful length-delimited call the bytes
\* appended are the tag (if any), the varint of len(bytes), of get_size() or
\* of the sum of size(x), and then the payload; that value is the number of
\* payload bytes whenever the payload has the length the call was given
\* for it, as it always has for write_bytes and write_string.
C4_PrefixIsDeclaredLength ==
    LengthCall =>
        /\ Kept
        /\ App = TagBytes \o Varint(USize(Declared)) \o Payload
        /\ (Len(Payload) = Declared => Framed(AfterTag))
        /\ (call \in BytesOps => Framed(AfterTag))

C4_Witness ==
    /\ LengthCall
    /\ call = "write_message"
    /\ Len(aval[2]) >= 2
    /\ Len(Payload) = Declared
    /\ pre # <<>>

\* the bytes the last call appends when the sink does not fail
Full == Apply(call, atag, aval, asize, Sink(<<>>, NoFault)).buf

\* C5: a call during which the sink fails returns the error and appends
\* nothing after the failure: the sink then holds its earlier bytes and a
\* strict prefix of what the call appends on success; a call that returns Ok
\* has appended all of it.
C5_FailureLeavesStrictPrefix ==
    (call # "new") =>
        LET full == Full
        IN  /\ Kept
            /\ IF ok THEN App = full
               ELSE Len(App) < Len(full) /\ App = Take(full, Len(App))

C5_Witness ==
    /\ call = "write_packed_repeated_field_with_tag"
    /\ ~ok
    /\ pre # <<>>
    /\ Len(aval) = 3
    /\ Len(App) = 3
    /\ Len(Full) > 4

\* C6: for a non-empty list write_packed_repeated_field_with_tag appends the
\* varint of the tag once, the varint of the sum of size(x) once, and then
\* the elements in list order with nothing between them; tag 0x12 with
\* [1, 2, 3] gives [0x12, 0x03, 0x01, 0x02, 0x03].
C6_PackedWithTagLayout ==
    (call = "write_packed_repeated_field_with_tag" /\ ok /\ aval # <<>>) =>
        /\ Kept
        /\ App = Varint(ZeroExt(atag, 64)) \o Varint(USize(SizeSum(aval, 1)))
                 \o ElementBytes(aval)
        /\ (atag = Tag(2, 2) /\ aval = <<<<I32(1), 1>>, <<I32(2), 1>>, <<I32(3), 1>>>>
               => App = <<18, 3, 1, 2, 3>>)

C6_Witness ==
    /\ call = "write_packed_repeated_field_with_tag" /\ ok
    /\ atag = Tag(2, 2)
    /\ aval = <<<<I32(1), 1>>, <<I32(2), 1>>, <<I32(3), 1>>>>
    /\ App = <<18, 3, 1, 2, 3>>

\* C7: write_int32_with_tag(t, v) appends the varint of t and then the
\* varint of v sign-extended to 64 bits: 10 value bytes for every negative
\* v, 1 for every v in 0..127; field 1, wire type 0, v = 300 gives
\* [0x08, 0xAC, 0x02].
C7_Int32WithTag ==
    (call = "write_int32_with_tag" /\ ok) =>
        /\ Kept
        /\ App = Varint(ZeroExt(atag, 64)) \o Varint(SignExt(aval, 64))
        /\ (aval[32] = 1 => Len(App) = Len(TagBytes) + 10)
        /\ ((\A i \in 7..31 : Bit(aval, i) = 0) => Len(App) = Len(TagBytes) + 1)
        /\ (atag = Tag(1, 0) /\ aval = I32(300) => App = <<8, 172, 2>>)

C7_Witness ==
    /\ call = "write_int32_with_tag" /\ ok
    /\ aval = I32(-1)
    /\ atag = Tag(1, 0)
    /\ Len(App) = 11

\* the writers of the integer scalar kinds
ScalarOps == {"write_int32", "write_int64", "write_uint32", "write_uint64",
              "write_sint32", "write_sint64", "write_bool", "write_enum",
              "write_fixed32", "write_fixed64", "write_sfixed32", "write_sfixed64"}

\* C8: reading back what a scalar writer appended, with the reader that
\* mirrors it, consumes exactly those bytes and yields the value written,
\* whether or not more bytes follow them.
C8_ScalarRoundTrip ==
    (call \in ScalarOps /\ ok) =>
        /\ Kept
        /\ Read(call, App) = <<TRUE, aval, Len(App)>>
        /\ Read(call, App \o <<255>>) = <<TRUE, aval, Len(App)>>

C8_Witness ==
    /\ call = "write_sint64" /\ ok
    /\ aval = P2(63, 64)
    /\ Len(App) = 10

\* C9: write_fixed32 and write_sfixed32 append exactly 4 bytes, write_fixed64
\* and write_sfixed64 exactly 8, bit j of byte k (from 0) being bit 8k + j
\* of the value: least-significant byte first, no length, no varint.
C9_FixedLittleEndian ==
    (call \in {"write_fixed32", "write_sfixed32", "write_fixed64", "write_sfixed64"} /\ ok) =>
        /\ Kept
        /\ Len(App) = (IF call \in {"write_fixed32", "write_sfixed32"} THEN 4 ELSE 8)
        /\ 8 * Len(App) = Len(aval)
        /\ \A k \in 0..(Len(App) - 1) : \A j \in 0..7 :
               ByteBit(App[k + 1], j) = Bit(aval, 8*k + j)

C9_Witness ==
    /\ call = "write_fixed32" /\ ok
    /\ aval = BV(305419896, 32)
    /\ App = <<120, 86, 52, 18>>

\* the writer a _with_tag writer pairs the tag with
Untagged(op) ==
    CASE op = "write_int32_with_tag" -> "write_int32"
      [] op = "write_int64_with_tag" -> "write_int64"
      [] op = "write_uint32_with_tag" -> "write_uint32"
      [] op = "write_uint64_with_tag" -> "write_uint64"
      [] op = "write_sint32_with_tag" -> "write_sint32"
      [] op = "write_sint64_with_tag" -> "write_sint64"
      [] op = "write_fixed64_with_tag" -> "write_fixed64"
      [] op = "write_fixed32_with_tag" -> "write_fixed32"
      [] op = "write_sfixed64_with_tag" -> "write_sfixed64"
      [] op = "write_sfixed32_with_tag" -> "write_sfixed32"
      [] op = "write_float_with_tag" -> "write_float"
      [] op = "write_double_with_tag" -> "write_double"
      [] op = "write_bool_with_tag" -> "write_bool"
      [] op = "write_enum_with_tag" -> "write_enum"
      [] op = "write_bytes_with_tag" -> "write_bytes"
      [] op = "write_string_with_tag" -> "write_string"
      [] op = "write_packed_repeated_field_with_tag" -> "write_packed_repeated_field"
      [] op = "write_packed_fixed_size_with_tag" -> "write_packed_fixed_size"
      [] op = "write_message_with_tag" -> "write_message"
      [] OTHER -> "none"

\* write_tag(t) and then the untagged writer, on a sink that does not fail
TagThenValue ==
    LET r == write_tag(Sink(pre, NoFault), atag)
    IN  Apply(Untagged(call), None, aval, asize, r).buf

\* C10: write_X_with_tag(t, v) appends the bytes of write_tag(t) followed by
\* write_X(v), for the packed kinds whenever the list is not empty.
C10_WithTagIsTagThenValue ==
    (Untagged(call) # "none" /\ ok /\ ~EmptyList) => inner = TagThenValue

C10_Witness ==
    /\ call = "write_enum_with_tag" /\ ok
    /\ aval = I32(300)
    /\ pre # <<>>
    /\ inner = TagThenValue

====
